---- MODULE Spec2Model ----
(***************************************************************************)
(* Neon Runner 3D: the per-frame game-state reducer of src/src/App.jsx and *)
(* the App component around it.  The file holds two builds of the game     *)
(* (lines 1-727, with bosses; lines 729-1343, the "STABLE local build");   *)
(* the variable build says which one runs.                                 *)
(*                                                                         *)
(* Units.  Times are integer milliseconds.  Hit points and damage are      *)
(* integers in units of 1/HpScale hp, the other player stats in units of   *)
(* 1/StatScale; with the frame deltas of DtxSet and at most three upgrades *)
(* of one kind every product of the code is exact in these units.          *)
(* Positions and vertical velocity are integers in units of 1/PosScale     *)
(* (mm, mm/s); the one inexact operation, setLength, truncates to a mm.    *)
(*                                                                         *)
(* Geometry.  The player's position is modelled (keys W, S, A, D at yaw 0,  *)
(* and S with D).  The positions of enemies, bullets and pickups are       *)
(* real vectors set by yaw, pitch and random spawn angles; the modelled    *)
(* steps read them only through distance tests to the player or to each    *)
(* other, and each frame draws the outcome of every distance test          *)
(* (which bullets are within radius+0.2 of which enemies, which enemies    *)
(* touch the player, which pickups are within 1.0, which bullets left the  *)
(* range).                                                                 *)
(*                                                                         *)
(* Runs.  Spec is the game with combat (the player stands still); SpecMove *)
(* moves, dashes and jumps the player in an arena without enemies;         *)
(* SpecCrowd is a session at the cap of the spawner; SpecPick runs the     *)
(* level-up effect over every outcome of pickThree; SpecUI is the App from *)
(* its construction with the Help button.  All of them run the same frame  *)
(* callback, FrameWith, over different sets of inputs.                     *)
(***************************************************************************)
EXTENDS Integers, Sequences, FiniteSets, TLC

VARIABLES
  build,         \* "boss" (App.jsx 1-727) or "stable" (App.jsx 729-1343)
  state,         \* the React state of useGameState
  levelChoices,  \* useState([]) of App: keys of the offered upgrades
  showHelp,      \* useState(true) of App
  prevLevel,     \* prevLevel.current, the useRef of App
  depLevel,      \* state.level at the last run of the level-up effect (its dependency)
  now,           \* performance.now() in ms at the last frame
  ev,            \* history: what the last step did
  hist           \* history: per-session log (ids handed out, awards, upgrades)

vars == <<build, state, levelChoices, showHelp, prevLevel, depLevel, now, ev, hist>>

-----------------------------------------------------------------------------
(* Bounds of the model *)

\* at most this many enemies + bullets + enemy bullets + pickups at any point of a frame
MaxEntities == 3
\* at most this many frames are modelled after an initial state
HorizonFrames == 2
\* the number of enemies of a cluster, all of them within range of one bullet
ClusterSize == 17

\* Units of the model: hp and damage in 1/32 hp, other stats in 1/1000000; and the
\* wall-clock time of the first modelled state (any value above the session times)
Units == [hp |-> 32, stat |-> 1000000, now0 |-> 200000, pos |-> 1000]
HpScale == Units.hp
StatScale == Units.stat
Now0 == Units.now0
PosScale == Units.pos

\* raw frame deltas dtx handed to useFrame, in ms: a full frame and a hitch
DtxSet == {50, 150}
\* outcomes of Math.random() in thousandths, one in every band of the loot tables
RollSet == {50, 150, 500, 800}
\* outcomes of rnd(0.5, 1.0) for the boss's first shootCooldown, in ms
BossCdSet == {500, 750}
\* frame deltas of the movement runs, in ms: a short frame and one above the 50 ms clamp
MoveDtxSet == {20, 150}
\* values of LOOK.pitch in mrad: level, and 60 degrees
Pitches == {0, 1047}
\* outcomes of the three Math.random() draws of pickThree, as indices into the pool
PickDraws == {<<0, 0, 0>>, <<6, 5, 4>>, <<3, 0, 4>>}
\* every outcome of the three draws: Math.floor(Math.random() * pool.length) for pools
\* of 7, 6 and 5
AllDraws == {<<a, b, c>> : a \in 0..6, b \in 0..5, c \in 0..4}

-----------------------------------------------------------------------------
(* Helpers *)

Min(a, b) == IF a < b THEN a ELSE b
Max(a, b) == IF a > b THEN a ELSE b

\* Math.round(n / d) for n >= 0, d > 0 (halves round up)
Round(n, d) == (2 * n + d) \div (2 * d)

clampLow(v, min, max) == Min(max, v)
\* const clamp = (v, min, max) => Math.max(min, Math.min(max, v))
clamp(v, min, max) == Max(min, Min(max, v))

RECURSIVE SeqSum(_)
SeqSum(q) == IF q = <<>> THEN 0 ELSE Head(q) + SeqSum(Tail(q))

\* the sequence q without its i-th element (Array.prototype.splice(i, 1))
SpliceKeep(q, i) == q
Splice(q, i) == SubSeq(q, 1, i - 1) \o SubSeq(q, i + 1, Len(q))

Ids(q) == {q[i].id : i \in 1..Len(q)}

-----------------------------------------------------------------------------
(* The initial player and session *)

\* vec3(x, y, z)
vec3(x, y, z) == [x |-> x * PosScale, y |-> y * PosScale, z |-> z * PosScale]

\* velY, and below eBullets, bossActive, bossDefeatedAtWave and hitFlash, exist in the
\* boss build only; the stable build never reads or writes them
Player0 ==
  [ pos |-> vec3(0, 1, 0), velY |-> 0, dashCooldown |-> 0,
    maxHp |-> 100, hp |-> 100 * HpScale, damage |-> 10 * HpScale, pierce |-> 0,
    firerate |-> 7 * StatScale, speed |-> 10 * StatScale,
    bulletSpeed |-> 35 * StatScale, magnet |-> 1 * StatScale ]

\* the object start() passes to set(), but for its difficulty
SessionDefault ==
  [ playing |-> TRUE, paused |-> FALSE, gameOver |-> FALSE, wave |-> 1, time |-> 0,
    score |-> 0, level |-> 1, xp |-> 0, lastShot |-> 0, difficulty |-> 2,
    player |-> Player0, enemies |-> <<>>, bullets |-> <<>>, eBullets |-> <<>>,
    pickups |-> <<>>, nextId |-> 1, bossActive |-> FALSE, bossDefeatedAtWave |-> 0,
    hitFlash |-> 0 ]

Session0Normal(dif) == SessionDefault
\* the object start() passes to set(), difficulty: state.difficulty; useGameState
\* builds the same with playing false and difficulty 2
Session0(dif) == [SessionDefault EXCEPT !.difficulty = dif]

-----------------------------------------------------------------------------
(* Upgrades *)

UpgradeKeys == <<"damage", "firerate", "speed", "maxhp", "bullet", "magnet", "pierce">>

ApplyUpgradeDamage(key, s) == [s EXCEPT !.player.damage = (s.player.damage * 125) \div 100]
\* ALL_UPGRADES[..].apply
ApplyUpgrade(key, s) ==
  LET p == s.player IN
  CASE key = "damage"   -> [s EXCEPT !.player.damage = (p.damage * 125) \div 100]
    [] key = "firerate" -> [s EXCEPT !.player.firerate = (p.firerate * 115) \div 100]
    [] key = "speed"    -> [s EXCEPT !.player.speed = (p.speed * 115) \div 100]
    [] key = "maxhp"    ->
         LET newMax == Round(p.maxHp * 12, 10)
             healed == Round(p.hp * 10 + p.maxHp * 2 * HpScale, 10 * HpScale)
         IN [s EXCEPT !.player.maxHp = newMax,
                      !.player.hp = Min(newMax, healed) * HpScale]
    [] key = "bullet"   -> [s EXCEPT !.player.bulletSpeed = (p.bulletSpeed * 12) \div 10]
    [] key = "magnet"   -> [s EXCEPT !.player.magnet = (p.magnet * 13) \div 10]
    [] key = "pierce"   -> [s EXCEPT !.player.pierce = p.pierce + 1]

\* pickThree: three splices out of a copy of the pool, at the drawn indices.  res is
\* the array returned, pool the copy after the splices, and ALL_UPGRADES the module's
\* array after the call (the splices work on the copy [...ALL_UPGRADES]).
pickThreeRun(all, draws) ==
  LET pool0 == all
      i1 == draws[1] + 1
      pool1 == Splice(pool0, i1)
      i2 == draws[2] + 1
      pool2 == Splice(pool1, i2)
      i3 == draws[3] + 1
      pool3 == Splice(pool2, i3)
  IN [res |-> <<pool0[i1], pool1[i2], pool2[i3]>>, pool |-> pool3, ALL_UPGRADES |-> all]

pickThree(draws) == pickThreeRun(UpgradeKeys, draws).res

-----------------------------------------------------------------------------
(* The frame callback of GameLoop, step by step.  A frame works on the record *)
(* w: the clone s of the previous state, the callback's local variables       *)
(* (scoreAdd, xpAdd, hpLoss, newHp) and the history of what it did.           *)

Count(s) == Len(s.enemies) + Len(s.bullets) + Len(s.eBullets) + Len(s.pickups)

\* the keys held during a frame: dir is worldDir, the unit vector <<x, z>> that W, S, A,
\* D and the yaw give, in thousandths; shift is ShiftLeft, space is Space; pitch is
\* LOOK.pitch in mrad
NoKeys == [dir |-> <<0, 0>>, shift |-> FALSE, space |-> FALSE, pitch |-> 0]

\* the pointer during a frame: locked is pointerLockElement === canvas, mouse is MouseLeft
NoPointer == [locked |-> FALSE, mouse |-> FALSE]

\* the callback's locals scoreAdd, xpAdd, hpLoss, and the history of what a frame did
Log0 ==
  [ scoreAdd |-> 0, xpAdd |-> 0, hpLoss |-> 0,
    hp0 |-> 0, hits |-> <<>>, skipped |-> 0, died |-> <<>>, rolls |-> 0,
    swept |-> 0, expired |-> 0, collected |-> <<>>, stores |-> <<>>,
    retired |-> {}, created |-> <<>>, bossSpawned |-> FALSE,
    keys |-> NoKeys, cd0 |-> 0, dashed |-> FALSE, speedUsed |-> 0, sinceDash |-> 0,
    clamped |-> FALSE, y0 |-> 0, velY0 |-> 0, jumped |-> FALSE, landed |-> FALSE,
    pointer |-> NoPointer, shots |-> <<>>, spawnRoll |-> FALSE, crowd0 |-> 0,
    spawned |-> 0, lastShot0 |-> 0, wave0 |-> 0, bossAtSpawn |-> FALSE,
    enemies0 |-> {}, afterBossSpawn |-> <<>>, touch |-> {}, contactBy |-> {},
    contactLoss |-> 0, drops |-> <<>>, timedOut |-> 0 ]

\* const s = { ...prev, player: {..., dashCooldown: Math.max(0, dashCooldown - dt)},
\*             time: prev.time + dt, hitFlash: Math.max(0, prev.hitFlash - 2 * dt) }
Clone(prev, dt) ==
  [ s |-> [prev EXCEPT !.time = prev.time + dt,
                       !.player.dashCooldown = Max(0, @ - dt),
                       !.hitFlash = IF build = "boss" THEN Max(0, @ - 2 * dt) ELSE @],
    newHp |-> prev.player.hp ]
  @@ [Log0 EXCEPT !.hp0 = prev.player.hp,
                  !.y0 = prev.player.pos.y, !.velY0 = prev.player.velY,
                   !.lastShot0 = prev.lastShot, !.wave0 = prev.wave,
                   !.enemies0 = Ids(prev.enemies)]

\* floor of the square root of n, lo <= sqrt(n) < hi
RECURSIVE SqrtIn(_, _, _)
SqrtIn(n, lo, hi) ==
  IF hi - lo <= 1 THEN lo
  ELSE LET mid == (lo + hi) \div 2
       IN IF mid * mid <= n THEN SqrtIn(n, mid, hi) ELSE SqrtIn(n, lo, mid)

\* Vector3.lengthSq()
LengthSq(v) == v.x * v.x + v.y * v.y + v.z * v.z

\* one coordinate of Vector3.setLength(l): c * l / length, truncated to a mm
Scaled(c, l, len) == IF c >= 0 THEN (c * l) \div len ELSE -(((-c) * l) \div len)

\* Vector3.setLength(l)
setLength(v, l) ==
  LET len == SqrtIn(LengthSq(v), 0, 46340)
  IN [x |-> Scaled(v.x, l, len), y |-> Scaled(v.y, l, len), z |-> Scaled(v.z, l, len)]

\* const arenaR = 35
arenaR == 35

NoArenaClamp(nextPos) == nextPos
\* if (nextPos.length() > arenaR - 1) nextPos.setLength(arenaR - 1)
ArenaClamp(nextPos) ==
  LET r == (arenaR - 1) * PosScale
  IN IF LengthSq(nextPos) > r * r THEN setLength(nextPos, r) ELSE nextPos

DashReadySoon(cd) == cd <= 50
\* s.player.dashCooldown === 0
DashReady(cd) == cd = 0

\* the direction the camera's full rotation Euler(pitch, yaw, 0) gives, flattened: the
\* forward component shrinks with cos(pitch) (1/2 at 60 degrees)
WorldDirOfLook(keys) ==
  <<keys.dir[1], IF keys.pitch = 0 THEN keys.dir[2] ELSE keys.dir[2] \div 2>>
\* worldDir: move rotated by Euler(0, LOOK.yaw, 0), y = 0, normalised
WorldDir(keys) == keys.dir

\* Movement: direction from the keys, dash, the step and the arena clamp.  The boss
\* build assigns x and z of the clamped vector, the stable build the whole vector.
Movement(w, keys, dt) ==
  LET p == w.s.player
      willDash == keys.shift /\ DashReady(p.dashCooldown)
      speed == IF willDash THEN (p.speed * 18) \div 10 ELSE p.speed
      step == ((speed \div (StatScale \div PosScale)) * dt) \div 1000
      worldDir == WorldDir(keys)
      moved == [x |-> p.pos.x + (worldDir[1] * step) \div 1000, y |-> p.pos.y,
                z |-> p.pos.z + (worldDir[2] * step) \div 1000]
      nextPos == ArenaClamp(moved)
  IN [w EXCEPT
       !.s.player.dashCooldown = IF willDash THEN 1000 ELSE @,
       !.s.player.pos = IF build = "boss"
                        THEN [x |-> nextPos.x, y |-> p.pos.y, z |-> nextPos.z]
                        ELSE nextPos,
       !.keys = keys, !.cd0 = p.dashCooldown, !.dashed = willDash,
       !.speedUsed = speed, !.clamped = nextPos # moved]

\* const onGround = s.player.pos.y <= groundY + 1e-3 && s.player.velY === 0
OnGround(p) == p.pos.y <= 1 * PosScale + 1 /\ p.velY = 0

\* Salto + gravita' (boss build only): jumpSpeed 7, g 18, groundY 1
Jump(w, keys, dt) ==
  IF build # "boss" THEN w
  ELSE
    LET p == w.s.player
        jumps == keys.space /\ OnGround(p)
        velY == (IF jumps THEN 7 * PosScale ELSE p.velY) - 18 * dt
        y == p.pos.y + (velY * dt) \div 1000
        lands == y < 1 * PosScale
    IN [w EXCEPT
         !.s.player.velY = IF lands THEN 0 ELSE velY,
         !.s.player.pos.y = IF lands THEN 1 * PosScale ELSE y,
         !.jumped = jumps, !.landed = lands]

BossAlive(s) == \E i \in 1..Len(s.enemies) : s.enemies[i].isBoss

BossSpawnGuardNoDefeat(s) ==
  /\ build = "boss"
  /\ s.wave % 5 = 0
  /\ ~s.bossActive /\ ~BossAlive(s)
\* bossWave && !s.bossActive && s.bossDefeatedAtWave !== s.wave && !bossAlive
BossSpawnGuard(s) ==
  /\ build = "boss"
  /\ s.wave % 5 = 0
  /\ ~s.bossActive /\ s.bossDefeatedAtWave # s.wave /\ ~BossAlive(s)

\* hp of a boss: Math.round((260 + 150 * tier) * (1 + 0.25 * difficulty))
BossHp(s) ==
  LET tier == Max(1, s.wave \div 5)
  IN Round((260 + 150 * tier) * (4 + s.difficulty), 4) * HpScale

BossSpawnKeep(w, cd0) ==
  LET s == w.s
      boss == [id |-> s.nextId, hp |-> BossHp(s), isBoss |-> TRUE, shootCooldown |-> cd0]
  IN
  IF BossSpawnGuard(s)
  THEN [w EXCEPT
         !.s.enemies = Append(@, boss),
         !.s.nextId = s.nextId + 1,
         !.s.bossActive = TRUE,
         !.created = Append(@, s.nextId),
         !.bossSpawned = TRUE,
         !.afterBossSpawn = Append(s.enemies, boss)]
  ELSE w

BossSpawnNoFlag(w, cd0) ==
  LET s == w.s
      boss == [id |-> s.nextId, hp |-> BossHp(s), isBoss |-> TRUE, shootCooldown |-> cd0]
  IN
  IF BossSpawnGuard(s)
  THEN [w EXCEPT
         !.s.enemies = <<boss>>,
         !.s.nextId = s.nextId + 1,
         !.created = Append(@, s.nextId),
         !.bossSpawned = TRUE,
         !.afterBossSpawn = <<boss>>]
  ELSE w

\* Boss spawn; cd0 is the draw of the first shootCooldown
BossSpawn(w, cd0) ==
  LET s == w.s
      boss == [id |-> s.nextId, hp |-> BossHp(s), isBoss |-> TRUE, shootCooldown |-> cd0]
  IN
  IF BossSpawnGuard(s)
  THEN [w EXCEPT
         !.s.enemies = <<boss>>,
         !.s.nextId = s.nextId + 1,
         !.s.bossActive = TRUE,
         !.created = Append(@, s.nextId),
         !.bossSpawned = TRUE,
         !.afterBossSpawn = <<boss>>]
  ELSE w

\* now - s.lastShot >= 1 / s.player.firerate; with now and lastShot whole ms this
\* compares with the interval rounded up to whole ms
ShotReady(s, nowF) ==
  nowF - s.lastShot >= (1000 * StatScale + s.player.firerate - 1) \div s.player.firerate

WantShootUnlocked(pointer) == pointer.mouse
\* const wantShoot = isLocked && keys.current["MouseLeft"]
WantShoot(pointer) == pointer.locked /\ pointer.mouse

\* Shooting (player)
Shoot(w, pointer, nowF) ==
  LET s == w.s
      bullet == [id |-> s.nextId, life |-> 1800, pierceLeft |-> s.player.pierce,
                 damage |-> s.player.damage, pierce0 |-> s.player.pierce, hits |-> 0]
  IN
  IF WantShoot(pointer) /\ ShotReady(s, nowF)
  THEN [w EXCEPT
         !.s.bullets = Append(@, bullet),
         !.s.lastShot = nowF,
         !.s.nextId = s.nextId + 1,
         !.created = Append(@, s.nextId),
         !.pointer = pointer,
         !.shots = Append(@, bullet)]
  ELSE [w EXCEPT !.pointer = pointer]

BulletsStepNoAge(w, dt, far) ==
  LET idx == {i \in 1..Len(w.s.bullets) : w.s.bullets[i].life > 0 /\ i \notin far}
      Keep(b) == \E i \in idx : w.s.bullets[i] = b
  IN [w EXCEPT !.s.bullets = SelectSeq(@, Keep)]

\* Bullets step: age every bullet, keep those with life > 0 inside the range;
\* far holds the indices of the bullets whose pos.length() is no longer below it
BulletsStep(w, dt, far) ==
  LET aged == [i \in 1..Len(w.s.bullets) |-> [w.s.bullets[i] EXCEPT !.life = @ - dt]]
      idx == {i \in 1..Len(aged) : aged[i].life > 0 /\ i \notin far}
      Keep(b) == \E i \in idx : aged[i] = b
  IN [w EXCEPT !.s.bullets = SelectSeq(aged, Keep),
               !.timedOut = @ + Cardinality({i \in 1..Len(aged) : aged[i].life <= 0})]

\* hp of a spawned enemy: Math.round(18 + (wave - 1) * 6 * (0.7 + 0.3 * difficulty))
EnemyHp(s) == Round(180 + (s.wave - 1) * (42 + 18 * s.difficulty), 10) * HpScale

NonBoss(s) == {i \in 1..Len(s.enemies) : ~s.enemies[i].isBoss}

SpawnerRunsAlways(s) == TRUE
\* the spawner runs: always in the stable build, !bossWave || !s.bossActive in the other
SpawnerRuns(s) == build = "stable" \/ s.wave % 5 # 0 \/ ~s.bossActive

\* the cap of the spawner
MaxNonBoss == 45

UpToCap(s) == Cardinality(NonBoss(s)) <= MaxNonBoss
\* s.enemies.filter((e)=>!e.isBoss).length < 45 (s.enemies.length < 45, stable build)
UnderCap(s) == Cardinality(NonBoss(s)) < MaxNonBoss

\* Spawns; spawn is the outcome of Math.random() < spawnChance
SpawnNormal(w, spawn) ==
  LET s == w.s IN
  IF SpawnerRuns(s) /\ spawn /\ UnderCap(s)
  THEN [w EXCEPT
         !.s.enemies = Append(@, [id |-> s.nextId, hp |-> EnemyHp(s), isBoss |-> FALSE,
                                  shootCooldown |-> 0]),
         !.s.nextId = s.nextId + 1,
         !.created = Append(@, s.nextId),
         !.spawnRoll = spawn, !.crowd0 = Cardinality(NonBoss(s)), !.spawned = @ + 1,
         !.bossAtSpawn = s.bossActive]
  ELSE [w EXCEPT !.spawnRoll = spawn, !.crowd0 = Cardinality(NonBoss(s)),
                 !.bossAtSpawn = s.bossActive]

\* Math.max(0.4, 1.7 / (1 + 0.08 * wave + 0.25 * difficulty)) in ms
BossShootCooldown(s) == Max(400, 170000 \div (100 + 8 * s.wave + 25 * s.difficulty))

\* Enemies + boss abilities: the boss's shot (movement and leap only move positions)
RECURSIVE EnemiesStep(_, _, _)
EnemiesStep(w, dt, i) ==
  IF i > Len(w.s.enemies) THEN w
  ELSE
    LET e == w.s.enemies[i] IN
    IF ~e.isBoss THEN EnemiesStep(w, dt, i + 1)
    ELSE
      LET cd == e.shootCooldown - dt IN
      IF cd <= 0
      THEN EnemiesStep(
             [w EXCEPT
               !.s.eBullets = Append(@, [id |-> w.s.nextId, life |-> 3500,
                                         damage |-> (18 + 4 * w.s.difficulty) * HpScale]),
               !.s.nextId = @ + 1,
               !.s.enemies[i].shootCooldown = BossShootCooldown(w.s),
               !.created = Append(@, w.s.nextId)],
             dt, i + 1)
      ELSE EnemiesStep([w EXCEPT !.s.enemies[i].shootCooldown = cd], dt, i + 1)

DamageableAlways(e) == TRUE
\* if (e.hp <= 0) continue;
Damageable(e) == e.hp > 0

PierceHitKeep(b) == [b EXCEPT !.pierceLeft = @ - 1]
\* if (b.pierceLeft <= 0) b.life = -1; else b.pierceLeft -= 1;
PierceHit(b) ==
  IF b.pierceLeft <= 0 THEN [b EXCEPT !.life = -1] ELSE [b EXCEPT !.pierceLeft = @ - 1]

\* scoreAdd += e.isBoss ? 200 : 15 (always 15 in the stable build)
ScoreFor(e) == IF e.isBoss THEN 200 ELSE 15
\* xpAdd += e.isBoss ? 5 : 1 (always 1 in the stable build)
XpFor(e) == IF e.isBoss THEN 5 ELSE 1

\* Collisions of the player's bullets: for every bullet, for every enemy, in order;
\* hit holds the pairs <<bullet index, enemy index>> within e.radius + 0.2
RECURSIVE Collisions(_, _, _, _)
Collisions(w, hit, bi, ei) ==
  IF bi > Len(w.s.bullets) THEN w
  ELSE IF ei > Len(w.s.enemies) THEN Collisions(w, hit, bi + 1, 1)
  ELSE
    LET b == w.s.bullets[bi]
        e == w.s.enemies[ei]
    IN
    IF <<bi, ei>> \notin hit THEN Collisions(w, hit, bi, ei + 1)
    ELSE IF ~Damageable(e)
    THEN Collisions([w EXCEPT !.skipped = @ + 1], hit, bi, ei + 1)
    ELSE
      LET hp2 == e.hp - b.damage
          b2 == [PierceHit(b) EXCEPT !.hits = @ + 1]
          kill == hp2 <= 0
      IN Collisions(
           [w EXCEPT
             !.s.enemies[ei].hp = hp2,
             !.s.bullets[bi] = b2,
             !.scoreAdd = @ + (IF kill THEN ScoreFor(e) ELSE 0),
             !.xpAdd = @ + (IF kill THEN XpFor(e) ELSE 0),
             !.hits = Append(@, [b |-> b.id, e |-> e.id, isBoss |-> e.isBoss,
                                 hpAfter |-> hp2, pierceBefore |-> b.pierceLeft])],
           hit, bi, ei + 1)

\* s.bullets = s.bullets.filter((b) => b.life > 0)
BulletsSweep(w) ==
  LET Live(b) == b.life > 0
      gone == {i \in 1..Len(w.s.bullets) : ~Live(w.s.bullets[i])}
  IN [w EXCEPT
       !.s.bullets = SelectSeq(@, Live),
       !.retired = {[pierce0 |-> w.s.bullets[i].pierce0, hits |-> w.s.bullets[i].hits]
                      : i \in gone}]

\* Enemy bullets + hit: age, cull (efar: out of range), then the hits on the player
\* (ehit: within 0.7 of the player)
EnemyBulletsStep(w, dt, efar, ehit) ==
  LET q == w.s.eBullets
      aged == [i \in 1..Len(q) |-> [q[i] EXCEPT !.life = @ - dt]]
      kept == {i \in 1..Len(q) : aged[i].life > 0 /\ i \notin efar}
      struck == kept \cap ehit
      Stay(b) == \E i \in kept \ struck : aged[i] = b
      loss == SeqSum([i \in 1..Len(q) |-> IF i \in struck THEN aged[i].damage ELSE 0])
  IN [w EXCEPT !.s.eBullets = SelectSeq(aged, Stay), !.hpLoss = @ + loss,
               !.timedOut = @ + Cardinality({i \in 1..Len(q) : aged[i].life <= 0})]

IsDeadNever(e) == FALSE
\* if (e.hp <= 0) in the death sweep
IsDead(e) == e.hp <= 0

LootTypeCoin(e, roll) == "coin"
\* the pickup type of a loot roll (thousandths), "none" when nothing drops
LootType(e, roll) ==
  IF e.isBoss
  THEN (IF roll < 400 THEN "heart" ELSE IF roll < 700 THEN "shield" ELSE "xp")
  ELSE IF roll >= 600 THEN "none"
  ELSE (IF roll < 100 THEN "heart" ELSE IF roll < 180 THEN "shield" ELSE "xp")

\* the id of a dropped pickup: s.nextId++ in the boss build, s.nextId + i (i the
\* 0-based index of the dead enemy, nextId left alone) in the stable build
DropId(s, i) == IF build = "boss" THEN s.nextId ELSE s.nextId + (i - 1)

\* Deaths -> drops: from the last enemy to the first; roll[i] is the Math.random()
\* drawn for the dead enemy at index i
RECURSIVE DeathSweep(_, _, _)
DeathSweep(w, roll, i) ==
  IF i < 1 THEN w
  ELSE
    LET s == w.s
        e == s.enemies[i]
    IN
    IF ~IsDead(e) THEN DeathSweep(w, roll, i - 1)
    ELSE
      LET type == LootType(e, roll[i])
          drop == type # "none"
          w1 == IF drop
                THEN [w EXCEPT
                       !.s.pickups = Append(@, [id |-> DropId(s, i),
                                                ttl |-> IF e.isBoss THEN 18000 ELSE 10000,
                                                type |-> type]),
                       !.s.nextId = IF build = "boss" THEN @ + 1 ELSE @,
                       !.created = Append(@, DropId(s, i))]
                ELSE w
          w2 == IF e.isBoss
                THEN [w1 EXCEPT !.s.bossActive = FALSE, !.s.bossDefeatedAtWave = s.wave]
                ELSE w1
      IN DeathSweep(
           [w2 EXCEPT !.s.enemies = Splice(@, i),
                      !.died = Append(@, [id |-> e.id, isBoss |-> e.isBoss]),
                      !.rolls = @ + 1,
                      !.drops = Append(@, [e |-> e.id, isBoss |-> e.isBoss,
                                           new |-> SubSeq(w2.s.pickups, Len(s.pickups) + 1,
                                                          Len(w2.s.pickups))])],
           roll, i - 1)

\* (e.isBoss ? 25 : 10) * s.difficulty * dt, in 1/HpScale hp
ContactDmg(e, s, dt) ==
  ((IF e.isBoss THEN 25 ELSE 10) * s.difficulty * dt * HpScale) \div 1000

\* Contact damage; touch holds the ids of the enemies whose position is within
\* radius + 0.8 of the player.  The boss build computes newHp and over here, before
\* the pickups.
ContactDamage(w, dt, touch) ==
  LET s == w.s
      contact == {i \in 1..Len(s.enemies) : s.enemies[i].id \in touch}
      loss == SeqSum([i \in 1..Len(s.enemies) |->
                        IF i \in contact THEN ContactDmg(s.enemies[i], s, dt) ELSE 0])
      hpLoss == w.hpLoss + loss
      newHp == clamp(s.player.hp - hpLoss, 0, s.player.maxHp * HpScale)
      w1 == [w EXCEPT !.hpLoss = hpLoss, !.touch = touch, !.contactLoss = loss,
                      !.contactBy = {s.enemies[i].id : i \in contact}]
  IN IF build = "boss"
     THEN [w1 EXCEPT !.newHp = newHp, !.stores = Append(@, newHp),
                     !.s.hitFlash = IF hpLoss > 0 THEN 1000 ELSE @]
     ELSE w1

\* hp restored by a pickup: 15 for a heart, 8 for a shield
HealOf(type) == (IF type = "heart" THEN 15 ELSE IF type = "shield" THEN 8 ELSE 0) * HpScale

\* Pickups: from the last to the first; near holds the indices of the pickups
\* within 1.0 of the player (d1 after the attraction in the boss build, d before it
\* in the stable build)
RECURSIVE PickupSweep(_, _, _, _)
PickupSweep(w, dt, near, i) ==
  IF i < 1 THEN w
  ELSE
    LET s == w.s
        p == [s.pickups[i] EXCEPT !.ttl = @ - dt]
    IN
    IF p.ttl <= 0
    THEN PickupSweep([w EXCEPT !.s.pickups = Splice(@, i), !.expired = @ + 1],
                     dt, near, i - 1)
    ELSE IF i \in near
    THEN
      LET hp2 == clamp(s.player.hp + HealOf(p.type), 0, s.player.maxHp * HpScale)
          heals == p.type \in {"heart", "shield"}
      IN PickupSweep(
           [w EXCEPT
             !.xpAdd = @ + (IF p.type = "xp" THEN 1 ELSE 0),
             !.s.player.hp = IF heals THEN hp2 ELSE @,
             !.stores = IF heals THEN Append(@, hp2) ELSE @,
             !.collected = Append(@, p.type),
             !.s.pickups = Splice(@, i)],
           dt, near, i - 1)
    ELSE PickupSweep([w EXCEPT !.s.pickups[i] = p], dt, near, i - 1)

\* the whole pickup loop, i from s.pickups.length - 1 down to 0
Pickups(w, dt, near) ==
  PickupSweep([w EXCEPT !.swept = Len(w.s.pickups)], dt, near, Len(w.s.pickups))

\* const need = 10 + (s.level - 1) * 6
Need(level) == 10 + (level - 1) * 6

LevelUpStrict(xp, level, xpAdd) ==
  LET newXp == xp + xpAdd IN
  IF newXp > Need(level)
  THEN [xp |-> newXp - Need(level), level |-> level + 1]
  ELSE [xp |-> newXp, level |-> level]
\* let newXp = s.xp + xpAdd; if (newXp >= need) { newXp -= need; lvlUp = true; }
LevelUp(xp, level, xpAdd) ==
  LET newXp == xp + xpAdd IN
  IF newXp >= Need(level)
  THEN [xp |-> newXp - Need(level), level |-> level + 1]
  ELSE [xp |-> newXp, level |-> level]

NewWaveAtOrAfter(s) == IF s.time >= 25000 + s.wave * 18000 THEN s.wave + 1 ELSE s.wave
\* let newWave = s.wave; if (s.time > 25 + s.wave * 18) newWave += 1;
NewWave(s) == IF s.time > 25000 + s.wave * 18000 THEN s.wave + 1 ELSE s.wave

\* Level & wave, HP & game over, and the returned state.  The stable build computes
\* newHp here, after the pickups; the boss build publishes the newHp of ContactDamage.
Finish(w) ==
  LET s == w.s
      lv == LevelUp(s.xp, s.level, w.xpAdd)
      newHp == IF build = "boss" THEN w.newHp
               ELSE clamp(s.player.hp - w.hpLoss, 0, s.player.maxHp * HpScale)
      over == newHp <= 0
  IN [w EXCEPT
       !.s = [s EXCEPT !.wave = NewWave(s), !.score = s.score + w.scoreAdd,
                       !.xp = lv.xp, !.level = lv.level,
                       !.player.hp = newHp, !.gameOver = over],
       !.newHp = newHp,
       !.stores = IF build = "boss" THEN @ ELSE Append(@, newHp)]

-----------------------------------------------------------------------------
(* History of a step *)

EvOf(op) ==
  [op |-> op, issued0 |-> 0, answered |-> FALSE, key |-> "none", draws |-> <<>>,
   ALL_UPGRADES |-> UpgradeKeys] @@ Log0

EvOfFrame(w) ==
  [ f \in DOMAIN EvOf("tick") |->
      CASE f = "op" -> "tick"
        [] f = "issued0" -> hist.issued
        [] f = "answered" -> FALSE
        [] f = "key" -> "none"
        [] f = "draws" -> <<>>
        [] f = "ALL_UPGRADES" -> UpgradeKeys
        [] f = "sinceDash" -> IF hist.lastDash < 0 THEN -1 ELSE w.s.time - hist.lastDash
        [] OTHER -> w[f] ]

RECURSIVE SeqMax(_, _)
SeqMax(q, m) == IF q = <<>> THEN m ELSE SeqMax(Tail(q), Max(m, Head(q)))

Kills(hits) == SelectSeq(hits, LAMBDA h : h.hpAfter <= 0)

HistOfFrame(w) ==
  [ issued |-> SeqMax(w.created, hist.issued),
    awardLog |-> hist.awardLog \o [i \in 1..Len(Kills(w.hits)) |-> Kills(w.hits)[i].e],
    ups |-> hist.ups,
    lvlPending |-> hist.lvlPending \/ w.s.level > state.level,
    over |-> hist.over \/ w.s.gameOver,
    lastDash |-> IF w.dashed THEN w.s.time ELSE hist.lastDash,
    frames |-> hist.frames + 1 ]

\* lastDash: the session time of the last tick that dashed, -1 if none; over: some tick
\* of the session has published gameOver = true
Hist0 ==
  [ issued |-> 0, awardLog |-> <<>>, ups |-> 0, lvlPending |-> FALSE, over |-> FALSE,
    lastDash |-> -1, frames |-> 0 ]

-----------------------------------------------------------------------------
(* Actions *)

\* the Level Up overlay is rendered
LevelOverlay ==
  state.paused /\ ~showHelp /\ ~state.gameOver /\ Len(levelChoices) > 0

\* some overlay covers the top bar
OverlayOpen == showHelp \/ state.gameOver \/ LevelOverlay

\* if (!prev.playing || prev.paused || prev.gameOver) return prev;
EarlyReturnUnlessPaused(prev) == ~prev.playing \/ prev.gameOver
EarlyReturn(prev) == ~prev.playing \/ prev.paused \/ prev.gameOver

\* The inputs a tick reads, as bounded sets: keys is the set of key profiles
\* (keys.current; no key, W, S, A or D alone at yaw 0, and S with D), shoot says
\* whether the mouse button and the pointer lock vary, spawn is the set of outcomes
\* of Math.random() < spawnChance, room bounds the number of entities, and reach
\* bounds the index of the enemies a bullet or the player can be within range of.
\* With stacked, the entities of a kind are at one spot: what is in range of one of
\* them is in range of all, and the dead enemies draw the same loot roll.
KeyProfiles ==
  { [dir |-> d, shift |-> sh, space |-> sp, pitch |-> pitch] :
      d \in {<<0, 0>>, <<1000, 0>>, <<-1000, 0>>, <<0, 1000>>, <<0, -1000>>, <<707, 707>>},
      sh \in BOOLEAN, sp \in BOOLEAN, pitch \in Pitches }

Pointers ==
  { [locked |-> TRUE, mouse |-> TRUE], [locked |-> TRUE, mouse |-> FALSE],
    [locked |-> FALSE, mouse |-> TRUE] }

CombatInputs ==
  [ dtx |-> DtxSet, keys |-> {NoKeys}, shoot |-> TRUE, spawn |-> BOOLEAN,
    room |-> MaxEntities, reach |-> MaxEntities, stacked |-> FALSE ]

MoveInputs ==
  [ dtx |-> MoveDtxSet, keys |-> KeyProfiles, shoot |-> FALSE, spawn |-> {FALSE},
    room |-> MaxEntities, reach |-> MaxEntities, stacked |-> FALSE ]

CrowdInputs ==
  [ dtx |-> DtxSet, keys |-> {NoKeys}, shoot |-> FALSE, spawn |-> BOOLEAN,
    room |-> MaxNonBoss + MaxEntities, reach |-> 1, stacked |-> FALSE ]

ClusterInputs ==
  [ dtx |-> DtxSet, keys |-> {NoKeys}, shoot |-> TRUE, spawn |-> BOOLEAN,
    room |-> ClusterSize + MaxEntities, reach |-> ClusterSize + MaxEntities,
    stacked |-> TRUE ]

\* the sets of entities that can be in range together: any subset of S, or none and
\* all of S when the entities are stacked
InRange(in, S) == IF in.stacked THEN {{}, S} ELSE SUBSET S

\* the outcomes of the Math.random() of the loot, one for each dead enemy
LootRolls(in, dead) ==
  IF in.stacked THEN {[i \in dead |-> r] : r \in RollSet} ELSE [dead -> RollSet]

\* useFrame((_, dtx) => { const dt = Math.min(0.05, dtx); set((prev) => ...) })
FrameWith(in) ==
  \E dtx \in in.dtx :
    /\ hist.frames < HorizonFrames
    /\ now' = now + dtx
    /\ UNCHANGED <<build, levelChoices, showHelp, prevLevel, depLevel>>
    /\ IF EarlyReturn(state)
       THEN /\ state' = state
            /\ ev' = EvOf("idle")
            /\ hist' = [hist EXCEPT !.frames = @ + 1]
       ELSE
         LET dt == Min(50, dtx) IN
         \E keys \in in.keys :
         \E w0 \in {Jump(Movement(Clone(state, dt), keys, dt), keys, dt)} :
         \E cd0 \in (IF BossSpawnGuard(w0.s) THEN BossCdSet ELSE {0}) :
         \E w1 \in {BossSpawn(w0, cd0)} :
         \E pointer \in (IF ~in.shoot THEN {NoPointer}
                          ELSE IF ~ShotReady(w1.s, now + dtx)
                               THEN {[locked |-> TRUE, mouse |-> TRUE]}
                          ELSE IF Count(w1.s) < in.room THEN Pointers
                          ELSE {[locked |-> TRUE, mouse |-> FALSE]}) :
         \E w2 \in {Shoot(w1, pointer, now + dtx)} :
         \E far \in SUBSET (1..Len(w2.s.bullets)) :
         \E w3 \in {BulletsStep(w2, dt, far)} :
         \E spawn \in (IF Count(w3.s) < in.room THEN in.spawn ELSE {FALSE}) :
         \E w4 \in {EnemiesStep(SpawnNormal(w3, spawn), dt, 1)} :
         /\ Count(w4.s) <= in.room
         /\ \E hit \in InRange(in, (1..Len(w4.s.bullets))
                                      \X (1..Min(in.reach, Len(w4.s.enemies)))) :
            \E w5 \in {BulletsSweep(Collisions(w4, hit, 1, 1))} :
            \E efar \in SUBSET (1..Len(w5.s.eBullets)) :
            \E ehit \in SUBSET ((1..Len(w5.s.eBullets)) \ efar) :
            \E w6 \in {EnemyBulletsStep(w5, dt, efar, ehit)} :
            \E roll \in LootRolls(in, {i \in 1..Len(w6.s.enemies) :
                                            IsDead(w6.s.enemies[i])}) :
            \E w7 \in {DeathSweep(w6, roll, Len(w6.s.enemies))} :
            \E touch \in InRange(in, {w6.s.enemies[i].id :
                                          i \in 1..Min(in.reach, Len(w6.s.enemies))}) :
            \E w8 \in {ContactDamage(w7, dt, touch)} :
            \E near \in InRange(in, 1..Len(w8.s.pickups)) :
            \E w9 \in {Finish(Pickups(w8, dt, near))} :
            /\ state' = w9.s
            /\ ev' = EvOfFrame(w9)
            /\ hist' = HistOfFrame(w9)

Frame == FrameWith(CombatInputs)

FrameMove == FrameWith(MoveInputs)

FrameCrowd == FrameWith(CrowdInputs)

FrameCluster == FrameWith(ClusterInputs)

\* start(): set({...}) with the initial session and the current difficulty,
\* setShowHelp(false).  Start, Quick Reset, Reset and Try Again all call it.
Start ==
  /\ ~LevelOverlay
  /\ state' = Session0(state.difficulty)
  /\ showHelp' = FALSE
  /\ ev' = EvOf("start")
  /\ hist' = [Hist0 EXCEPT !.frames = hist.frames]
  /\ UNCHANGED <<build, levelChoices, prevLevel, depLevel, now>>

\* key P, or the Pause/Resume button: set((s) => ({ ...s, paused: !s.paused }))
TogglePause ==
  /\ state' = [state EXCEPT !.paused = ~@]
  /\ ev' = EvOf("ui")
  /\ UNCHANGED <<build, levelChoices, showHelp, prevLevel, depLevel, now, hist>>

\* the level-up effect: useEffect(..., [state.level, set]) runs when state.level
\* differs from the value of its last run
LevelEffectWith(drawSet) ==
  /\ state.level # depLevel
  /\ depLevel' = state.level
  /\ IF state.level > prevLevel
     THEN /\ prevLevel' = state.level
          /\ \E draws \in drawSet :
               /\ levelChoices' = pickThree(draws)
               /\ ev' = [EvOf("levelEffect") EXCEPT
                           !.answered = hist.lvlPending,
                           !.draws = draws,
                           !.ALL_UPGRADES = pickThreeRun(UpgradeKeys, draws).ALL_UPGRADES]
          /\ state' = [state EXCEPT !.paused = TRUE]
     ELSE /\ ev' = [EvOf("levelEffect") EXCEPT !.answered = hist.lvlPending]
          /\ UNCHANGED <<prevLevel, levelChoices, state>>
  /\ hist' = [hist EXCEPT !.lvlPending = FALSE]
  /\ UNCHANGED <<build, showHelp, now>>

LevelEffect == LevelEffectWith(PickDraws)

LevelEffectAll == LevelEffectWith(AllDraws)

\* a button of the Level Up overlay: set((s) => u.apply({ ...s, paused: false }));
\* setLevelChoices([])
SelectUpgrade ==
  /\ LevelOverlay
  /\ \E i \in 1..Len(levelChoices) :
       /\ state' = ApplyUpgrade(levelChoices[i], [state EXCEPT !.paused = FALSE])
       /\ ev' = [EvOf("ui") EXCEPT !.key = levelChoices[i]]
  /\ levelChoices' = <<>>
  /\ hist' = [hist EXCEPT !.ups = @ + 1]
  /\ UNCHANGED <<build, showHelp, prevLevel, depLevel, now>>

\* the Easy / Normal / Hard pills of the Help overlay
SetDifficulty ==
  /\ showHelp /\ ~state.gameOver
  /\ \E d \in {1, 2, 3} : state' = [state EXCEPT !.difficulty = d]
  /\ ev' = EvOf("ui")
  /\ UNCHANGED <<build, levelChoices, showHelp, prevLevel, depLevel, now, hist>>

\* the Help button of the top bar: setShowHelp(true)
Help ==
  /\ ~OverlayOpen
  /\ showHelp' = TRUE
  /\ ev' = EvOf("ui")
  /\ UNCHANGED <<build, state, levelChoices, prevLevel, depLevel, now, hist>>

\* the Options button of the Game Over overlay
Options ==
  /\ state.gameOver
  /\ state' = IF build = "boss"
              THEN [state EXCEPT !.gameOver = FALSE, !.paused = TRUE]
              ELSE state
  /\ showHelp' = TRUE
  /\ ev' = EvOf("ui")
  /\ UNCHANGED <<build, levelChoices, prevLevel, depLevel, now, hist>>

Next ==
  \/ Frame
  \/ Start
  \/ TogglePause
  \/ LevelEffect
  \/ SelectUpgrade
  \/ SetDifficulty
  \/ Options

-----------------------------------------------------------------------------
(* Initial states: the App as constructed, and sessions in progress.  Every   *)
(* session below is reached from start() by frames of 50 ms:                  *)
(*  - "levelup": wave 1 after 42.95 s; nine enemies (two bullets each) killed *)
(*    for score 135 and xp 9, the first eight with a loot roll above 0.6, the *)
(*    ninth dropping an xp pickup that still lies there; a tenth enemy hit    *)
(*    once and left with 8 hp; 50 hp lost to contacts.  The boss build has    *)
(*    numbered the pickup 28, the enemy 29 and the bullet 30; the stable      *)
(*    build the pickup 28, the enemy 28 and the bullet 29.                    *)
(*  - "restarted": the same point of a session begun by a later start(),      *)
(*    after an earlier session had reached level 2 (prevLevel.current 2):     *)
(*    every loot roll above 0.6, the tenth enemy is 28, 1 hp is left.         *)
(*  - "wave4": wave 4 at 97.0 s, nothing shot; one enemy spawned in wave 4.   *)
(*  - "boss" (boss build): wave 5 at 114.9 s; the boss (id 2) spawned and hit *)
(*    61 times, 5 hp left, about to shoot; 20 enemy bullets fired, three of   *)
(*    them hit the player (22 hp left).                                       *)

Enemy(id, hp, isBoss, cd) ==
  [id |-> id, hp |-> hp * HpScale, isBoss |-> isBoss, shootCooldown |-> cd]

LevelupSession(b) ==
  [Session0(2) EXCEPT
    !.time = 42950, !.score = 135, !.xp = 9, !.player.hp = 50 * HpScale,
    !.enemies = <<Enemy(IF b = "boss" THEN 29 ELSE 28, 8, FALSE, 0)>>,
    !.pickups = <<[id |-> 28, ttl |-> 9000, type |-> "xp"]>>,
    !.nextId = IF b = "boss" THEN 31 ELSE 30, !.lastShot = Now0 - 1000]

RestartedSession ==
  [Session0(2) EXCEPT
    !.time = 42950, !.score = 135, !.xp = 9, !.player.hp = 1 * HpScale,
    !.enemies = <<Enemy(28, 8, FALSE, 0)>>, !.nextId = 30, !.lastShot = Now0 - 1000]

Wave4Session ==
  [Session0(2) EXCEPT
    !.wave = 4, !.time = 97000, !.enemies = <<Enemy(1, 41, FALSE, 0)>>, !.nextId = 2]

BossSession ==
  [Session0(2) EXCEPT
    !.wave = 5, !.time = 114900, !.player.hp = 22 * HpScale,
    !.enemies = <<Enemy(2, 5, TRUE, 50)>>, !.bossActive = TRUE,
    !.nextId = 84, !.lastShot = Now0 - 1000]

Sessions ==
  { [b |-> b, s |-> LevelupSession(b), prev |-> 1] : b \in {"boss", "stable"} }
  \cup { [b |-> b, s |-> RestartedSession, prev |-> 2] : b \in {"boss", "stable"} }
  \cup { [b |-> b, s |-> Wave4Session, prev |-> 1] : b \in {"boss", "stable"} }
  \cup { [b |-> "boss", s |-> BossSession, prev |-> 1] }

InitApp ==
  /\ build \in {"boss", "stable"}
  /\ state = [Session0(2) EXCEPT !.playing = FALSE]
  /\ levelChoices = <<>>
  /\ showHelp = TRUE
  /\ prevLevel = 1
  /\ depLevel = 1
  /\ now = Now0
  /\ hist = Hist0
  /\ ev = EvOf("init")

InitSession ==
  \E c \in Sessions :
    /\ build = c.b
    /\ state = c.s
    /\ levelChoices = <<>>
    /\ showHelp = FALSE
    /\ prevLevel = c.prev
    /\ depLevel = 1
    /\ now = Now0
    /\ hist = [Hist0 EXCEPT !.issued = c.s.nextId - 1]
    /\ ev = EvOf("init")

Init == InitApp \/ InitSession

Spec == Init /\ [][Next]_vars

\* the App from its construction, with the Help button of the top bar
NextUI == Next \/ Help
SpecUI == InitApp /\ [][NextUI]_vars

(* Movement runs: no enemies, every key profile.  The sessions are reached    *)
(* from start() by frames of 50 ms with no spawn:                             *)
(*  - "edge": 5 s in, the player has walked along x to 33.8                   *)
(*  - "apex" (boss build): Space held in the first seven ticks, D held long   *)
(*    enough before to stand at x 33.8; y 2.19 rising at 0.7/s                 *)
(*  - "falling" (boss build): fourteen ticks after a jump in the first tick,  *)
(*    y 1.175 falling at 5.6/s                                                 *)
(*  - "cooling": a dash in the first tick, eighteen ticks ago: 0.1 s of       *)
(*    cooldown left                                                            *)
EdgeSession == [Session0(2) EXCEPT !.time = 5000, !.player.pos.x = 33800]

ApexSession ==
  [Session0(2) EXCEPT
    !.time = 5000, !.player.pos.x = 33800, !.player.pos.y = 2190, !.player.velY = 700]

FallingSession ==
  [Session0(2) EXCEPT !.time = 700, !.player.pos.y = 1175, !.player.velY = -5600]

CoolingSession ==
  [Session0(2) EXCEPT !.time = 950, !.player.pos.x = 900, !.player.dashCooldown = 100]

MoveSessions ==
  { [b |-> b, s |-> Session0(2), lastDash |-> -1] : b \in {"boss", "stable"} }
  \cup { [b |-> b, s |-> EdgeSession, lastDash |-> -1] : b \in {"boss", "stable"} }
  \cup { [b |-> b, s |-> CoolingSession, lastDash |-> 50] : b \in {"boss", "stable"} }
  \cup { [b |-> "boss", s |-> ApexSession, lastDash |-> -1],
         [b |-> "boss", s |-> FallingSession, lastDash |-> -1] }

InitMove ==
  \E c \in MoveSessions :
    /\ build = c.b
    /\ state = c.s
    /\ levelChoices = <<>>
    /\ showHelp = FALSE
    /\ prevLevel = 1
    /\ depLevel = 1
    /\ now = Now0
    /\ hist = [Hist0 EXCEPT !.lastDash = c.lastDash]
    /\ ev = EvOf("init")

NextMove ==
  \/ FrameMove
  \/ Start
  \/ TogglePause

SpecMove == InitMove /\ [][NextMove]_vars

(* Crowded runs: wave 1 after 30 s with 44 and with 45 enemies spawned and    *)
(* none killed; only the first enemy is near the player.                       *)
CrowdSession(n) ==
  [Session0(2) EXCEPT
    !.time = 30000, !.nextId = n + 1,
    !.enemies = [i \in 1..n |-> [id |-> i, hp |-> EnemyHp(Session0(2)), isBoss |-> FALSE,
                                  shootCooldown |-> 0]]]

InitCrowd ==
  /\ build \in {"boss", "stable"}
  /\ \E n \in {MaxNonBoss - 1, MaxNonBoss} :
       /\ state = CrowdSession(n)
       /\ hist = [Hist0 EXCEPT !.issued = n]
  /\ levelChoices = <<>>
  /\ showHelp = FALSE
  /\ prevLevel = 1
  /\ depLevel = 1
  /\ now = Now0
  /\ ev = EvOf("init")

NextCrowd ==
  \/ FrameCrowd
  \/ Start
  \/ TogglePause

SpecCrowd == InitCrowd /\ [][NextCrowd]_vars

(* Level-up runs: the session of "levelup" one tick later, the xp pickup      *)
(* collected and level 2 reached; the level-up effect has not run yet.  The   *)
(* effect draws every outcome of pickThree.                                    *)
PickSession(b) == [LevelupSession(b) EXCEPT !.time = 43000, !.level = 2, !.xp = 0, !.pickups = <<>>]

InitPick ==
  /\ build \in {"boss", "stable"}
  /\ state = PickSession(build)
  /\ levelChoices = <<>>
  /\ showHelp = FALSE
  /\ prevLevel = 1
  /\ depLevel = 1
  /\ now = Now0
  /\ hist = [Hist0 EXCEPT !.issued = state.nextId - 1, !.lvlPending = TRUE]
  /\ ev = EvOf("init")

NextPick ==
  \/ LevelEffectAll
  \/ SelectUpgrade
  \/ TogglePause

SpecPick == InitPick /\ [][NextPick]_vars

(* Old entities: the session of "levelup" with the bullet fired 1.7 s ago still  *)
(* in flight (0.1 s of life left) and the xp pickup dropped 9.9 s ago (0.1 s   *)
(* left); and the session of "boss" with the enemy bullet the boss fired 3.4 s *)
(* ago (0.1 s left).                                                           *)
OldSession(b) ==
  [LevelupSession(b) EXCEPT
    !.pickups = <<[id |-> 28, ttl |-> 100, type |-> "xp"]>>,
    !.bullets = <<[id |-> IF b = "boss" THEN 30 ELSE 29, life |-> 100, pierceLeft |-> 0,
                   damage |-> 10 * HpScale, pierce0 |-> 0, hits |-> 0]>>,
    !.lastShot = Now0 - 1700]

OldBossSession ==
  [BossSession EXCEPT
    !.eBullets = <<[id |-> 83, life |-> 100, damage |-> 26 * HpScale]>>]

OldSessions ==
  { [b |-> b, s |-> OldSession(b)] : b \in {"boss", "stable"} }
  \cup { [b |-> "boss", s |-> OldBossSession] }

InitOld ==
  \E c \in OldSessions :
    /\ build = c.b
    /\ state = c.s
    /\ levelChoices = <<>>
    /\ showHelp = FALSE
    /\ prevLevel = 1
    /\ depLevel = 1
    /\ now = Now0
    /\ hist = [Hist0 EXCEPT !.issued = c.s.nextId - 1]
    /\ ev = EvOf("init")

NextOld ==
  \/ Frame
  \/ Start
  \/ TogglePause

SpecOld == InitOld /\ [][NextOld]_vars

-----------------------------------------------------------------------------
(* A cluster: the session of "levelup" with the enemies that followed the     *)
(* player stacked at one spot (enemies do not collide with each other), each  *)
(* of them hit once by an earlier bullet (18 hp - 10), and the next bullet in *)
(* flight towards them.                                                       *)
ClusterSession(b) ==
  [LevelupSession(b) EXCEPT
    !.enemies = [i \in 1..ClusterSize |-> Enemy(29 + i, 8, FALSE, 0)],
    !.pickups = <<>>,
    !.bullets = <<[id |-> 30 + ClusterSize, life |-> 1700, pierceLeft |-> 0,
                   damage |-> 10 * HpScale, pierce0 |-> 0, hits |-> 0]>>,
    !.nextId = 31 + ClusterSize, !.lastShot = Now0 - 100]

InitCluster ==
  \E b \in {"boss", "stable"} :
    /\ build = b
    /\ state = ClusterSession(b)
    /\ levelChoices = <<>>
    /\ showHelp = FALSE
    /\ prevLevel = 1
    /\ depLevel = 1
    /\ now = Now0
    /\ hist = [Hist0 EXCEPT !.issued = 30 + ClusterSize]
    /\ ev = EvOf("init")

NextCluster ==
  \/ FrameCluster
  \/ Start
  \/ TogglePause

SpecCluster == InitCluster /\ [][NextCluster]_vars

-----------------------------------------------------------------------------
(* Properties *)

MaxHpOf(s) == s.player.maxHp * HpScale

\* C1: in every reachable state 0 <= hp <= maxHp, and every value a tick stores as
\* the player's hp (the hp set by a pickup, the newHp it publishes) is at least 0
C1_HpWithinBounds ==
  /\ 0 <= state.player.hp
  /\ state.player.hp <= MaxHpOf(state)
  /\ \A i \in 1..Len(ev.stores) : 0 <= ev.stores[i] /\ ev.stores[i] <= MaxHpOf(state)

\* a tick in which the damage taken exceeded the hp left, published with hp 0
C1_Witness ==
  /\ ev.op = "tick"
  /\ ev.hpLoss > ev.hp0
  /\ state.player.hp = 0
  /\ state.gameOver

\* hp after collecting pickups of the given types in order: +15 for a heart, +8 for a
\* shield, each clamped to max
RECURSIVE HealedBy(_, _, _)
HealedBy(hp, types, max) ==
  IF types = <<>> THEN hp
  ELSE LET gain == IF Head(types) = "heart" THEN 15 * HpScale
                   ELSE IF Head(types) = "shield" THEN 8 * HpScale ELSE 0
       IN HealedBy(Min(max, hp + gain), Tail(types), max)

Heals(types) == \E i \in 1..Len(types) : types[i] \in {"heart", "shield"}

\* C2: a tick that collects a heart (a shield) publishes the hp it started with plus
\* 15 (plus 8), clamped to maxHp, less the damage of the tick, and the collected
\* pickups are gone from the pickups collection
C2_PickupHealsPublished ==
  (ev.op = "tick" /\ Heals(ev.collected)) =>
    /\ state.player.hp =
         Max(0, HealedBy(ev.hp0, ev.collected, MaxHpOf(state)) - ev.hpLoss)
    /\ Len(state.pickups) = ev.swept - ev.expired - Len(ev.collected)

NoRepeat(q) == \A i, j \in 1..Len(q) : q[i] = q[j] => i = j

\* C3: no published state holds an enemy with hp <= 0; the enemies a tick awarded
\* are the enemies it removed, each once; and no enemy is awarded twice in a session
C3_DeadRemovedAwardedOnce ==
  /\ \A i \in 1..Len(state.enemies) : state.enemies[i].hp > 0
  /\ NoRepeat(hist.awardLog)
  /\ ev.op = "tick" =>
       /\ Len(Kills(ev.hits)) = Len(ev.died)
       /\ {Kills(ev.hits)[i].e : i \in 1..Len(Kills(ev.hits))}
            = {ev.died[i].id : i \in 1..Len(ev.died)}
       /\ \A i \in 1..Len(ev.died) : ev.died[i].id \notin Ids(state.enemies)

\* a tick in which one bullet killed an enemy and a later bullet, within range of
\* the same enemy, passed it over
C3_Witness ==
  /\ ev.op = "tick"
  /\ Len(ev.died) = 1
  /\ ev.skipped >= 1
  /\ hist.awardLog # <<>>

\* C4: every id a tick hands out is greater than every id handed out before it in
\* the session
C4_IdsStrictlyIncrease ==
  ev.op = "tick" =>
    \A i \in 1..Len(ev.created) :
      ev.created[i] > SeqMax(SubSeq(ev.created, 1, i - 1), ev.issued0)

Bosses(s) == {i \in 1..Len(s.enemies) : s.enemies[i].isBoss}

\* C5: at most one boss exists, and a tick whose boss-spawn step created a boss began
\* with no boss alive, bossActive false and bossDefeatedAtWave different from the wave
C5_SingleBoss ==
  [][ /\ Cardinality(Bosses(state)) <= 1
      /\ Cardinality(Bosses(state')) <= 1
      /\ (ev'.op = "tick" /\ ev'.bossSpawned) =>
           /\ Bosses(state) = {}
           /\ ~state.bossActive
           /\ state.bossDefeatedAtWave # state.wave ]_vars

\* a tick of a boss wave whose boss was defeated earlier in this wave: nothing spawned
C5_Witness ==
  /\ ev.op = "tick"
  /\ state.wave % 5 = 0
  /\ state.bossDefeatedAtWave = state.wave
  /\ ev.died = <<>>
  /\ ~ev.bossSpawned
  /\ Bosses(state) = {}

\* C6: a bullet created with pierce k has damaged at most k + 1 times, whether it is
\* still in flight or was removed by this tick
C6_PierceBound ==
  /\ \A i \in 1..Len(state.bullets) :
       state.bullets[i].hits <= state.bullets[i].pierce0 + 1
  /\ \A r \in ev.retired : r.hits <= r.pierce0 + 1

\* C7: a tick leaves the wave alone or adds one to it, adds one only when the time it
\* publishes exceeds 25 + 18 * wave seconds, and the wave is 1 while time <= 43 s
C7_WaveAdvance ==
  [][ /\ state'.time <= 43000 => state'.wave = 1
      /\ ev'.op = "tick" =>
           /\ state'.wave \in {state.wave, state.wave + 1}
           /\ state'.wave = state.wave + 1 =>
                state'.time > 25000 + 18000 * state.wave ]_vars

\* a tick that ended at exactly 43 s and left the wave at 1
C7_Witness ==
  /\ ev.op = "tick"
  /\ state.time = 43000
  /\ state.wave = 1

LastHitOf(hits, e) ==
  LET idx == {i \in 1..Len(hits) : hits[i].e = e} IN
  hits[CHOOSE i \in idx : \A j \in idx : j <= i]

\* C8: a tick adds to score and experience 15 and 1 for every hit that brought a
\* non-boss enemy to hp <= 0 (200 and 5 for a boss) and nothing for the other hits,
\* rolls loot once per such hit, keeps an enemy its hits left with hp > 0, and
\* removes a bullet that hit with no pierce left
C8_HitAwards ==
  [][ ev'.op = "tick" =>
        LET hits == ev'.hits
            kills == Kills(hits)
            xpPicked == Len(SelectSeq(ev'.collected, LAMBDA c : c = "xp"))
        IN
        /\ state'.score = state.score
             + SeqSum([i \in 1..Len(kills) |-> IF kills[i].isBoss THEN 200 ELSE 15])
        /\ ev'.xpAdd = xpPicked
             + SeqSum([i \in 1..Len(kills) |-> IF kills[i].isBoss THEN 5 ELSE 1])
        /\ ev'.rolls = Len(kills)
        /\ \A i \in 1..Len(hits) :
             /\ LastHitOf(hits, hits[i].e).hpAfter > 0 =>
                  \E k \in 1..Len(state'.enemies) :
                    /\ state'.enemies[k].id = hits[i].e
                    /\ state'.enemies[k].hp = LastHitOf(hits, hits[i].e).hpAfter
             /\ hits[i].pierceBefore <= 0 => hits[i].b \notin Ids(state'.bullets) ]_vars

\* the second bullet of the claim's scenario: an enemy left with 8 hp is hit by a
\* bullet of damage 10 with no pierce; 15 score and 1 experience, one loot roll
C8_Witness ==
  /\ ev.op = "tick"
  /\ Len(ev.hits) = 1
  /\ ev.hits[1].hpAfter = (8 - 10) * HpScale
  /\ ~ev.hits[1].isBoss
  /\ ev.hits[1].pierceBefore = 0
  /\ ev.scoreAdd = 15 /\ ev.xpAdd = 1 /\ ev.rolls = 1
  /\ state.enemies = <<>> /\ state.bullets = <<>>

\* C9: a tick that gained xpAdd experience publishes xp + xpAdd - need and level + 1
\* when xp + xpAdd >= need = 10 + 6 * (level - 1), else xp + xpAdd and the same level
C9_Leveling ==
  [][ ev'.op = "tick" =>
        LET sum == state.xp + ev'.xpAdd
            need == 10 + 6 * (state.level - 1)
        IN IF sum >= need
           THEN state'.xp = sum - need /\ state'.level = state.level + 1
           ELSE state'.xp = sum /\ state'.level = state.level ]_vars

\* xp 9 at level 1 and one xp pickup collected (nothing killed): xp 0, level 2
C9_Witness ==
  /\ ev.op = "tick"
  /\ ev.collected = <<"xp">>
  /\ ev.died = <<>>
  /\ ev.xpAdd = 1
  /\ state.xp = 0
  /\ state.level = 2

\* C10: the run of the level-up effect that follows a tick's increment of level
\* leaves the session paused with three upgrade choices offered
C10_LevelUpPauses ==
  (ev.op = "levelEffect" /\ ev.answered) =>
    (state.paused /\ Len(levelChoices) = 3)

\* a step of the frame callback: it alone publishes "tick" or "idle"
IsFrameStep == ev'.op \in {"tick", "idle"}

\* C11: a tick invoked while the session is not playing, is paused or is game-over
\* leaves the state as it was: time, player, enemies, bullets, enemy bullets, pickups,
\* score, xp, level, wave, nextId and lastShot keep their values
C11_EarlyReturnUnchanged ==
  [][ (IsFrameStep /\ (~state.playing \/ state.paused \/ state.gameOver)) =>
        /\ state' = state
        /\ state'.time = state.time /\ state'.player = state.player
        /\ state'.enemies = state.enemies /\ state'.bullets = state.bullets
        /\ state'.eBullets = state.eBullets /\ state'.pickups = state.pickups
        /\ state'.score = state.score /\ state'.xp = state.xp
        /\ state'.level = state.level /\ state'.wave = state.wave
        /\ state'.nextId = state.nextId /\ state'.lastShot = state.lastShot ]_vars

\* a frame has run while the session was paused with an enemy next to the player
C11_Witness ==
  /\ ev.op = "idle"
  /\ state.playing /\ state.paused /\ ~state.gameOver
  /\ Len(state.enemies) > 0
  /\ hist.frames = 2

\* C12: once a tick has published gameOver = true, no later tick advances the
\* simulation (time, entities, score, xp, hp) until start() is called, whatever other
\* user actions (pause toggle, Options, difficulty) occur in between
C12_GameOverTerminal ==
  [][ (IsFrameStep /\ hist.over) =>
        /\ state'.time = state.time
        /\ state'.enemies = state.enemies /\ state'.bullets = state.bullets
        /\ state'.eBullets = state.eBullets /\ state'.pickups = state.pickups
        /\ state'.score = state.score /\ state'.xp = state.xp
        /\ state'.player.hp = state.player.hp ]_vars

\* C13: after start() every session field has its initial value whatever the state
\* before it was (playing, not paused, not game-over, wave 1, time 0, score 0, level 1,
\* xp 0, the initial player stats and position, no entities, nextId 1, lastShot 0,
\* bossActive false, bossDefeatedAtWave 0, hitFlash 0); the difficulty alone is that
\* of the state before
C13_StartResetsSession ==
  [][ ev'.op = "start" =>
        /\ state'.playing /\ ~state'.paused /\ ~state'.gameOver
        /\ state'.wave = 1 /\ state'.time = 0 /\ state'.score = 0
        /\ state'.level = 1 /\ state'.xp = 0 /\ state'.lastShot = 0
        /\ state'.player =
             [ pos |-> [x |-> 0, y |-> 1 * PosScale, z |-> 0], velY |-> 0,
               speed |-> 10 * StatScale, dashCooldown |-> 0, maxHp |-> 100,
               hp |-> 100 * HpScale, magnet |-> 1 * StatScale, damage |-> 10 * HpScale,
               firerate |-> 7 * StatScale, bulletSpeed |-> 35 * StatScale, pierce |-> 0 ]
        /\ state'.enemies = <<>> /\ state'.bullets = <<>>
        /\ state'.eBullets = <<>> /\ state'.pickups = <<>>
        /\ state'.nextId = 1
        /\ ~state'.bossActive /\ state'.bossDefeatedAtWave = 0 /\ state'.hitFlash = 0
        /\ state'.difficulty = state.difficulty
        /\ DOMAIN state' = DOMAIN state ]_vars

\* a session begun on Hard and played for a frame has been reset by start()
C13_Witness ==
  /\ ev.op = "start"
  /\ state.difficulty = 3
  /\ hist.frames >= 1
  /\ state.time = 0 /\ state.nextId = 1

\* C14: in every reachable state the player's horizontal distance from the centre of
\* the arena is at most arenaR - 1 = 34, whatever keys, dashes and frame deltas
C14_InsideArena ==
  state.player.pos.x * state.player.pos.x + state.player.pos.z * state.player.pos.z
    <= (34 * PosScale) * (34 * PosScale)

\* a tick in which the step (a dash at that) left the radius and was clamped back
C14_Witness ==
  /\ ev.op = "tick"
  /\ ev.clamped /\ ev.dashed
  /\ state.player.pos.x > 33 * PosScale

\* C15: in every state published by a tick the player's vertical position is at least
\* ground level (1); after a landing it is ground level with vertical velocity 0; a
\* jump starts only in a tick that found the player at ground level with vertical
\* velocity 0
C15_VerticalMotion ==
  ev.op = "tick" =>
    /\ state.player.pos.y >= 1 * PosScale
    /\ ev.landed => (state.player.pos.y = 1 * PosScale /\ state.player.velY = 0)
    /\ ev.jumped => (ev.y0 = 1 * PosScale /\ ev.velY0 = 0)

\* the state s with paused false and the player's stats named in fields taken from t
WithStats(s, t, fields) ==
  [s EXCEPT !.paused = FALSE,
            !.player = [f \in DOMAIN s.player |-> IF f \in fields THEN t.player[f]
                                                  ELSE s.player[f]]]

C17_PickThreeDistinct ==
  ev.draws # <<>> =>
    /\ Len(levelChoices) = 3
    /\ \A i, j \in 1..3 : i # j => levelChoices[i] # levelChoices[j]
    /\ \A i \in 1..3 :
         levelChoices[i] \in
           {"damage", "firerate", "speed", "maxhp", "bullet", "magnet", "pierce"}
    /\ ev.ALL_UPGRADES =
         <<"damage", "firerate", "speed", "maxhp", "bullet", "magnet", "pierce">>

\* the three draws each took the last upgrade of the pool that was left
C17_Witness ==
  /\ ev.draws = <<6, 5, 4>>
  /\ levelChoices = <<"pierce", "magnet", "bullet">>

\* C18: in every reachable state there are at most 45 non-boss enemies; the spawner
\* adds at most one of them in a tick, and only when it finds fewer than 45
C18_SpawnCap ==
  /\ Cardinality({i \in 1..Len(state.enemies) : ~state.enemies[i].isBoss}) <= 45
  /\ ev.op = "tick" =>
       /\ ev.spawned <= 1
       /\ ev.spawned = 1 => ev.crowd0 < 45

\* a tick whose spawn draw succeeded found 45 enemies and added none
C18_Witness ==
  /\ ev.op = "tick"
  /\ ev.spawnRoll /\ ev.spawned = 0 /\ ev.crowd0 = 45
  /\ Len(state.enemies) = 45

\* C19: a tick applies the 1.8x dash multiplier exactly when the dash key is held and
\* the cooldown, after the tick's decay, is 0, and that tick sets the cooldown to 1.0;
\* the cooldown stays within [0, 1.0]; two ticks that dash are at least 1.0 s of
\* simulated time apart
C19_Dash ==
  /\ state.player.dashCooldown >= 0 /\ state.player.dashCooldown <= 1000
  /\ ev.op = "tick" =>
       /\ (ev.speedUsed * 10 = state.player.speed * 18) <=> (ev.keys.shift /\ ev.cd0 = 0)
       /\ ev.speedUsed * 10 # state.player.speed * 18 => ev.speedUsed = state.player.speed
       /\ (ev.keys.shift /\ ev.cd0 = 0) => state.player.dashCooldown = 1000
       /\ (ev.speedUsed * 10 = state.player.speed * 18 /\ ev.sinceDash >= 0) =>
            ev.sinceDash >= 1000

\* a second dash, in the first tick that found the cooldown of the first one at 0
C19_Witness ==
  /\ ev.op = "tick"
  /\ ev.keys.shift /\ ev.cd0 = 0 /\ ev.dashed
  /\ ev.sinceDash = 1000
  /\ state.player.dashCooldown = 1000

\* C20: a tick emits a player bullet only if the left mouse button is held, the canvas
\* holds the pointer lock and at least 1/firerate s have passed since lastShot; it
\* emits at most one, stamped with the player's damage and pierce, and sets lastShot
\* to the current time; without the pointer lock no bullet is emitted
C20_Shooting ==
  ev.op = "tick" =>
    /\ Len(ev.shots) <= 1
    /\ \A i \in 1..Len(ev.shots) :
         /\ ev.pointer.mouse /\ ev.pointer.locked
         /\ now - ev.lastShot0 > (1000 * StatScale - 1) \div state.player.firerate
         /\ ev.shots[i].damage = state.player.damage
         /\ ev.shots[i].pierceLeft = state.player.pierce
         /\ state.lastShot = now
    /\ ~ev.pointer.locked => (ev.shots = <<>> /\ state.lastShot = ev.lastShot0)

\* a second shot of the session: the button held under pointer lock, 150 ms after the
\* first shot
C20_Witness ==
  /\ ev.op = "tick"
  /\ Len(ev.shots) = 1
  /\ ev.pointer.locked /\ ev.pointer.mouse
  /\ now - ev.lastShot0 = 150
  /\ state.lastShot = now

\* C21: a tick that finds the wave divisible by 5 and a boss active when it comes to
\* the spawner skips it and adds no non-boss enemy; in every other tick the spawner
\* runs: it adds an enemy when its draw succeeds and fewer than 45 are present
C21_SpawnerSkipped ==
  ev.op = "tick" =>
    /\ (ev.wave0 % 5 = 0 /\ ev.bossAtSpawn) => ev.spawned = 0
    /\ (~(ev.wave0 % 5 = 0 /\ ev.bossAtSpawn) /\ ev.spawnRoll /\ ev.crowd0 < 45) =>
         ev.spawned = 1

\* in wave 5 with the boss alive the spawn draw succeeded and nothing was spawned
C21_Witness ==
  /\ ev.op = "tick"
  /\ ev.wave0 = 5 /\ ev.bossAtSpawn /\ ~ev.bossSpawned
  /\ ev.spawnRoll /\ ev.spawned = 0 /\ ev.crowd0 = 0

\* C22: in the tick where the boss-spawn guard triggers, the enemies present before
\* are discarded with no score, experience or loot for them, exactly one boss is
\* added and bossActive becomes true; right after the boss-spawn step the enemies
\* collection holds that boss alone
C22_BossSpawnClears ==
  (ev.op = "tick" /\ ev.bossSpawned) =>
    /\ Len(ev.afterBossSpawn) = 1
    /\ ev.afterBossSpawn[1].isBoss
    /\ ev.afterBossSpawn[1].id \notin ev.enemies0
    /\ ev.bossAtSpawn
    /\ \A i \in 1..Len(ev.hits) : ev.hits[i].e \notin ev.enemies0
    /\ \A i \in 1..Len(ev.died) : ev.died[i].id \notin ev.enemies0
    /\ \A i \in 1..Len(state.enemies) : state.enemies[i].id \notin ev.enemies0
    /\ Cardinality({i \in 1..Len(state.enemies) : state.enemies[i].isBoss}) = 1

\* the boss of wave 5 spawned in a tick that began with an enemy of wave 4 alive
C22_Witness ==
  /\ ev.op = "tick" /\ ev.bossSpawned
  /\ ev.enemies0 # {}
  /\ ev.wave0 = 5
  /\ state.bossActive

\* the ids of the enemies a hit of the tick left with hp <= 0
KilledIn(e) == {e.hits[i].e : i \in {j \in 1..Len(e.hits) : e.hits[j].hpAfter <= 0}}

\* C23: contact damage is computed over the enemies that survive the death sweep of
\* the tick: an enemy whose hp reached <= 0 in the tick deals no contact damage in
\* it, even when it is within radius + 0.8 of the player
C23_DeadDealNoContact ==
  ev.op = "tick" =>
    /\ ev.contactBy \cap KilledIn(ev) = {}
    /\ ev.contactBy = ev.touch \ KilledIn(ev)
    /\ ev.contactBy = {} => ev.contactLoss = 0

\* an enemy within reach of the player was killed in the tick, and the tick took no
\* hp from the player
C23_Witness ==
  /\ ev.op = "tick"
  /\ ev.touch \cap KilledIn(ev) # {}
  /\ ev.contactLoss = 0 /\ ev.hpLoss = 0

MovedPlayer(k, dt) == Jump(Movement(Clone(state, dt), k, dt), k, dt).s.player

AgedOrFresh(q, q2, f, dt, fresh) ==
  \A i \in 1..Len(q2) :
    /\ q2[i][f] > 0
    /\ \/ \E j \in 1..Len(q) : q[j].id = q2[i].id /\ q2[i][f] = q[j][f] - dt
       \/ q2[i][f] + dt \in fresh

\* C26: every transient entity is removed within its lifetime of simulated time,
\* while ticks run with a positive delta: each tick advances the time, an entity it
\* publishes has life left, and that life is what it had before less the delta of
\* the tick, starting from 1.8 s for a player bullet, 3.5 s for an enemy bullet and
\* 10 s (18 s for a boss drop) for a pickup
C26_TransientsExpire ==
  [][ ev'.op = "tick" =>
        LET dt == state'.time - state.time IN
        /\ dt > 0
        /\ AgedOrFresh(state.bullets, state'.bullets, "life", dt, {1800})
        /\ AgedOrFresh(state.eBullets, state'.eBullets, "life", dt, {3500})
        /\ AgedOrFresh(state.pickups, state'.pickups, "ttl", dt, {10000, 18000}) ]_vars

\* a tick has removed an entity whose lifetime ran out, a pickup or a bullet
C26_Witness ==
  /\ ev.op = "tick"
  /\ ev.expired + ev.timedOut >= 2
  /\ state.bullets = <<>> /\ state.pickups = <<>>
  /\ hist.frames = 2

\* C27: no tick advances the simulation between the tick that increments level and
\* the level-up effect that sets paused and offers the choices: a frame callback that
\* runs while that effect is still to come leaves the state as it was
C27_NoTickBeforePause ==
  [][ (IsFrameStep /\ hist.lvlPending /\ state.level > prevLevel) => state' = state ]_vars

\* C28: in every state published by a tick of the boss build, bossActive is true
\* exactly when the enemies collection holds an enemy with isBoss = true
C28_BossActiveIffBoss ==
  (build = "boss" /\ ev.op = "tick") =>
    (state.bossActive <=> \E i \in 1..Len(state.enemies) : state.enemies[i].isBoss)

\* the tick that killed the boss published bossActive = false and no boss
C28_Witness ==
  /\ build = "boss" /\ ev.op = "tick"
  /\ \E i \in 1..Len(ev.died) : ev.died[i].isBoss
  /\ ~state.bossActive
  /\ \A i \in 1..Len(state.enemies) : ~state.enemies[i].isBoss

\* C29: the number of upgrades applied since the last start() never exceeds
\* level - 1, for any interleaving of ticks, pause toggles, upgrade selections and
\* start(), a start() with upgrade choices still pending included
C29_UpgradesWithinLevels == hist.ups <= state.level - 1

\* C30: in every state published by a tick, xp is at least 0 and below the threshold
\* 10 + 6 * (level - 1) of the published level, whatever amount of experience the
\* tick gained
C30_XpBelowNeed ==
  ev.op = "tick" => (0 <= state.xp /\ state.xp < 10 + 6 * (state.level - 1))

====
